---- MODULE Spec2Model ----
(***************************************************************************)
(* Multi-bureau credit report service (src/main.py).                       *)
(*                                                                         *)
(* State: the process-wide report store credit_reports_db, an insertion-  *)
(* ordered dict from report id to report document, and the response of the *)
(* last handler.  One action per handler; every call to the random module, *)
(* to uuid4 and to datetime.now is an input of the action that makes it.   *)
(*                                                                         *)
(* Python values: a dict is a record, a list a sequence, an Optional a     *)
(* sequence of length <= 1.  A str that the code case-folds (the bureau    *)
(* names) is a sequence of characters.  The key "creditProfile" holds a    *)
(* dict in one place and a str in another, so a str under that key is the  *)
(* one-field record [str |-> s].                                           *)
(***************************************************************************)
EXTENDS Integers, Sequences, FiniteSets, TLC

VARIABLES
    credit_reports_db,  \* <<[key, value], ...>> in insertion order
    resp,               \* the last handler's request and response
    ph,                 \* generate_payment_history run step by step
    tasks               \* a generation and a batch read run access by access

vars == <<credit_reports_db, resp, ph, tasks>>

(***************************************************************************)
(* Bounds of the model.                                                    *)
(***************************************************************************)
MaxReports == 3         \* reports the store holds at most
MaxShuffleOffset == 1   \* shuffle draws j with i - MaxShuffleOffset <= j <= i

(***************************************************************************)
(* Python helpers.                                                         *)
(***************************************************************************)
None == <<>>
Some(v) == <<v>>

Min(a, b) == IF a <= b THEN a ELSE b
Max(a, b) == IF a >= b THEN a ELSE b

\* range(n): the indices of a for loop over n iterations (none when n <= 0)
Range(n) == 1..n

\* dict.update(u): u's keys are added, or overwrite the keys d already has
DictUpdate(d, u) ==
    [k \in DOMAIN d \cup DOMAIN u |-> IF k \in DOMAIN u THEN u[k] ELSE d[k]]

\* a str stored under a key that elsewhere holds a dict
Str(s) == [str |-> s]

UPPER == <<"A","B","C","D","E","F","G","H","I","J","K","L","M",
           "N","O","P","Q","R","S","T","U","V","W","X","Y","Z">>
LOWER == <<"a","b","c","d","e","f","g","h","i","j","k","l","m",
           "n","o","p","q","r","s","t","u","v","w","x","y","z">>

\* the lower-case letter of every upper-case letter
LowerTable ==
    [c \in {UPPER[i] : i \in DOMAIN UPPER} |->
        LOWER[CHOOSE i \in DOMAIN UPPER : UPPER[i] = c]]

LowerChar(c) == IF c \in DOMAIN LowerTable THEN LowerTable[c] ELSE c

\* str.lower()
Lower(s) == [i \in DOMAIN s |-> LowerChar(s[i])]

\* the upper-case letter of every lower-case letter
UpperTable ==
    [c \in {LOWER[i] : i \in DOMAIN LOWER} |->
        UPPER[CHOOSE i \in DOMAIN LOWER : LOWER[i] = c]]

UpperChar(c) == IF c \in DOMAIN UpperTable THEN UpperTable[c] ELSE c

IsLetter(c) == c \in DOMAIN UpperTable \/ c \in DOMAIN LowerTable

\* str.title(): a letter that follows no letter is made upper-case, every
\* other letter lower-case
Title(s) ==
    [i \in DOMAIN s |->
        IF i = 1 \/ ~IsLetter(s[i - 1]) THEN UpperChar(s[i])
        ELSE LowerChar(s[i])]

\* str(code) for a one-digit code
Digits == <<"0","1","2","3","4","5","6","7","8","9">>
StrOfDigit(code) == Digits[code + 1]

\* f"R{code}" for a one-digit code
RCodes == <<"R0","R1","R2","R3","R4","R5","R6","R7","R8","R9">>
RCodeOf(code) == RCodes[code + 1]

\* f"Payment status {code}" for a one-digit code
PaymentStatusTexts ==
    <<"Payment status 0", "Payment status 1", "Payment status 2",
      "Payment status 3", "Payment status 4", "Payment status 5",
      "Payment status 6", "Payment status 7", "Payment status 8",
      "Payment status 9">>
PaymentStatusText(code) == PaymentStatusTexts[code + 1]

(***************************************************************************)
(* Enums and sample data.                                                  *)
(***************************************************************************)
EQUIFAX == "equifax"
TRANSUNION == "transunion"
EXPERIAN == "experian"
ALL == "all"
Bureau == {EQUIFAX, TRANSUNION, EXPERIAN, ALL}

CreditProfile == {"excellent", "good", "fair", "poor", "random"}

\* the "bureau" field of the three documents
NameEquifax == <<"E","q","u","i","f","a","x">>
NameTransUnion == <<"T","r","a","n","s","U","n","i","o","n">>
NameExperian == <<"E","x","p","e","r","i","a","n">>

FIRST_NAMES == <<"James", "Mary", "John", "Patricia", "Robert", "Jennifer",
                 "Michael", "Linda", "William", "Barbara", "David",
                 "Elizabeth", "Richard", "Susan">>
LAST_NAMES == <<"Smith", "Johnson", "Williams", "Brown", "Jones", "Garcia",
                "Miller", "Davis", "Rodriguez", "Martinez", "Wilson",
                "Anderson", "Thomas", "Taylor">>
CITIES == << <<"New York", "NY", "10001">>, <<"Los Angeles", "CA", "90001">>,
             <<"Chicago", "IL", "60601">>, <<"Houston", "TX", "77001">>,
             <<"Phoenix", "AZ", "85001">>, <<"Philadelphia", "PA", "19101">> >>
STREET_NAMES == <<"Main", "Oak", "Pine", "Maple", "Cedar", "Elm", "Washington">>
STREET_TYPES == <<"St", "Ave", "Blvd", "Dr", "Ln", "Rd">>
BANKS == <<"Wells Fargo", "Bank of America", "Chase", "Citibank", "US Bank">>
CREDIT_CARDS == <<"American Express", "Discover", "Capital One", "Barclays">>
AUTO_LENDERS == <<"Toyota Financial", "GM Financial", "Ford Credit">>

\* int(zip_code) on the zip codes of CITIES
IntOfZip(z) ==
    CASE z = "10001" -> 10001 [] z = "90001" -> 90001 [] z = "60601" -> 60601
      [] z = "77001" -> 77001 [] z = "85001" -> 85001 [] z = "19101" -> 19101

(***************************************************************************)
(* The random module.  A draw is "lo", "mid" or "hi": randint(a, b) returns *)
(* an end or the middle of its range, choice(seq) the first, the middle or *)
(* the last element.                                                       *)
(***************************************************************************)
Draws == {"lo", "mid", "hi"}
randint(a, b, d) ==
    IF d = "lo" THEN a ELSE IF d = "hi" THEN b ELSE (a + b) \div 2
choice(seq, d) ==
    IF d = "lo" THEN seq[1]
    ELSE IF d = "hi" THEN seq[Len(seq)] ELSE seq[(Len(seq) + 1) \div 2]
\* random.random() > 0.3
random_above_03(d) == d # "lo"

(***************************************************************************)
(* generate_payment_history.                                               *)
(***************************************************************************)
months == 24

Repeat(v, n) == [i \in 1..n |-> v]

\* the codes of a profile before the shuffle
BaseCodes(profile_range) ==
    IF profile_range = "excellent" THEN Repeat(1, months)
    ELSE IF profile_range = "good" THEN Repeat(1, months - 2) \o Repeat(2, 2)
    ELSE IF profile_range = "fair" THEN Repeat(1, months - 5) \o <<2, 2, 3, 2, 1>>
    ELSE Repeat(1, months - 8) \o <<2, 3, 4, 3, 2, 3, 4, 2>>

\* a swap that forgets its second half: x[i] = x[j]
ShuffleStepCopy(x, i, j) ==
    [x EXCEPT ![i] = x[j]]

\* x[i], x[j] = x[j], x[i]
ShuffleStep(x, i, j) ==
    [x EXCEPT ![i] = x[j], ![j] = x[i]]

\* the values randbelow(i + 1) takes at the step that fills position i
ShuffleChoices(i) == {Max(1, i - k) : k \in 0..MaxShuffleOffset}

\* the draws of one whole shuffle of the months, every step at offset k
ShuffleDraws ==
    [k \in 0..MaxShuffleOffset |-> [i \in 2..months |-> Max(1, i - k)]]

RECURSIVE ShuffleFrom(_, _, _)
ShuffleFrom(x, i, js) ==
    IF i < 2 THEN x ELSE ShuffleFrom(ShuffleStep(x, i, js[i]), i - 1, js)

\* random.shuffle(x): for i from the last position down to the second,
\* swap x[i] with x[j], j drawn from the positions up to i
Shuffle(x, js) == ShuffleFrom(x, Len(x), js)

EquifaxDescriptions ==
    <<"Pays account as agreed", "Not more than two payments past due",
      "Not more than three payments past due",
      "Not more than four payments past due">>

\* the list comprehension of each format
EncodePaymentHistory(codes, format) ==
    IF format = "transunion"
    THEN [m \in DOMAIN codes |->
            [code |-> IF codes[m] <= 4 THEN RCodeOf(codes[m]) ELSE "R9",
             description |-> PaymentStatusText(codes[m])]]
    ELSE IF format = "experian"
    THEN [m \in DOMAIN codes |->
            [code |-> IF codes[m] <= 9 THEN StrOfDigit(codes[m]) ELSE "9",
             description |-> PaymentStatusText(codes[m])]]
    ELSE [m \in DOMAIN codes |->
            [code |-> codes[m],
             description |-> IF codes[m] \in DOMAIN EquifaxDescriptions
                             THEN EquifaxDescriptions[codes[m]]
                             ELSE "Status unknown"]]

generate_payment_history(profile_range, format, js) ==
    EncodePaymentHistory(Shuffle(BaseCodes(profile_range), js), format)

(***************************************************************************)
(* Helper functions.  A date is kept as the clock reading, the days        *)
(* subtracted and the format it is printed in.                             *)
(***************************************************************************)
generate_ssn(d) == randint(100000000, 999999999, d)

generate_dob(d) ==
    [month |-> randint(1, 12, d), day |-> randint(1, 28, d),
     year |-> randint(1950, 2000, d)]

generate_date(days_ago_max, now, d) ==
    [now |-> now, days_ago |-> randint(30, days_ago_max, d), format |-> "%m%d%Y"]

generate_iso_date(days_ago_max, now, d) ==
    [now |-> now, days_ago |-> randint(30, days_ago_max, d), format |-> "iso"]

\* datetime.now().isoformat()
now_isoformat(now) == [now |-> now, days_ago |-> 0, format |-> "iso"]

generate_address(d) ==
    LET house_num == randint(100, 9999, d)
        street == choice(STREET_NAMES, d)
        street_type == choice(STREET_TYPES, d)
        city == choice(CITIES, d)
    IN [houseNumber |-> house_num,
        streetName |-> street,
        streetType |-> street_type,
        cityName |-> city[1],
        stateAbbreviation |-> city[2],
        zipCode |-> IntOfZip(city[3]),
        addressLine1 |-> <<house_num, street, street_type>>]

Tiers == <<"excellent", "good", "fair", "poor">>
TierSet == {Tiers[i] : i \in DOMAIN Tiers}

ScoreLow(t) ==
    CASE t = "excellent" -> 750 [] t = "good" -> 670
      [] t = "fair" -> 580 [] t = "poor" -> 300
ScoreHigh(t) ==
    CASE t = "excellent" -> 850 [] t = "good" -> 749
      [] t = "fair" -> 669 [] t = "poor" -> 579
DelinqLow(t) ==
    CASE t = "excellent" -> 0 [] t = "good" -> 0
      [] t = "fair" -> 1 [] t = "poor" -> 3
DelinqHigh(t) ==
    CASE t = "excellent" -> 0 [] t = "good" -> 1
      [] t = "fair" -> 3 [] t = "poor" -> 6

\* the profiles dict: every tier's score and delinquencies are drawn
Profiles(sd, dd) ==
    [t \in TierSet |->
        [score |-> randint(ScoreLow(t), ScoreHigh(t), sd[t]),
         delinquencies |-> randint(DelinqLow(t), DelinqHigh(t), dd[t])]]

\* get_credit_profile without the resolution of "random"
get_credit_profile_unresolved(profile_type, sd, dd, td) ==
    LET profiles == Profiles(sd, dd)
    IN <<profile_type,
         IF profile_type \in DOMAIN profiles THEN profiles[profile_type]
         ELSE profiles["good"]>>

\* returns <<profile_type, profile_data>>; td draws the tier of "random"
get_credit_profile(profile_type, sd, dd, td) ==
    LET profiles == Profiles(sd, dd)
        resolved == IF profile_type = "random" THEN choice(Tiers, td)
                    ELSE profile_type
    IN <<resolved,
         IF resolved \in DOMAIN profiles THEN profiles[resolved]
         ELSE profiles["good"]>>

(***************************************************************************)
(* The three report generators.  acct[k] holds the draws of the k-th       *)
(* account: its type, the offset of its shuffle, and the draw every other  *)
(* random call of that account takes.                                      *)
(***************************************************************************)
ACCOUNT_TYPES == <<"credit_card", "auto_loan", "mortgage">>

\* account_type.replace("_", " ").title()
TitleOfAccountType(t) ==
    CASE t = "credit_card" -> "Credit Card"
      [] t = "auto_loan" -> "Auto Loan"
      [] t = "mortgage" -> "Mortgage"

EquifaxTrade(profile_range, now, a) ==
    LET account_type == choice(ACCOUNT_TYPES, a.account_type)
        d == a.other
        trade ==
            [customerNumber |-> <<"999", choice(<<"BB", "FA", "MT">>, d),
                                  randint(10000, 99999, d)>>,
             accountNumber |-> randint(100000, 999999999, d),
             dateReported |-> generate_date(365, now, d),
             dateOpened |-> generate_date(3650, now, d),
             rate |-> [code |-> IF profile_range \in {"excellent", "good"}
                                THEN 1 ELSE randint(1, 3, d)],
             paymentHistory1to24 |->
                 generate_payment_history(profile_range, "equifax",
                                          ShuffleDraws[a.shuffle]),
             lastActivityDate |-> generate_date(180, now, d)]
    IN IF account_type = "credit_card"
       THEN DictUpdate(trade,
               [customerName |-> choice(CREDIT_CARDS, d),
                highCredit |-> randint(1000, 25000, d),
                accountTypeCode |-> [code |-> 18, description |-> "Credit Card"]])
       ELSE IF account_type = "auto_loan"
       THEN DictUpdate(trade,
               [customerName |-> choice(AUTO_LENDERS, d),
                highCredit |-> randint(10000, 50000, d),
                accountTypeCode |-> [code |-> 0, description |-> "Auto"]])
       ELSE DictUpdate(trade,
               [customerName |-> choice(BANKS, d),
                highCredit |-> randint(100000, 500000, d),
                accountTypeCode |-> [code |-> 1, description |-> "Mortgage"]])

generate_equifax_report(first_name, last_name, middle_initial, ssn, dob, profile_range, profile_data, current_addr, former_addr, num_accounts, now, acct) ==
    LET trades == [k \in Range(num_accounts) |->
                      EquifaxTrade(profile_range, now, acct[k])]
    IN [bureau |-> NameEquifax,
        consumers |->
          [equifaxUSConsumerCreditReport |-> <<
            [subjectName |-> [firstName |-> first_name,
                              lastName |-> last_name,
                              middleName |-> middle_initial],
             subjectSocialNum |-> ssn,
             birthDate |-> dob,
             addresses |-> <<current_addr, former_addr>>,
             trades |-> trades,
             models |-> << [type |-> "FICO", modelNumber |-> "08",
                            score |-> profile_data.score] >>] >>]]

TransUnionTradeline(profile_range, now, a) ==
    LET account_type == choice(ACCOUNT_TYPES, a.account_type)
        d == a.other
        tradeline ==
            [accountNumber |-> randint(100000, 999999999, d),
             accountType |-> TitleOfAccountType(account_type),
             dateOpened |-> generate_iso_date(3650, now, d),
             dateReported |-> generate_iso_date(365, now, d),
             paymentHistory |->
                 generate_payment_history(profile_range, "transunion",
                                          ShuffleDraws[a.shuffle]),
             accountRating |-> IF profile_range \in {"excellent", "good"}
                               THEN "R1" ELSE "R2"]
    IN IF account_type = "credit_card"
       THEN DictUpdate(tradeline,
               [creditorName |-> choice(CREDIT_CARDS, d),
                creditLimit |-> randint(1000, 25000, d),
                currentBalance |-> randint(0, 10000, d)])
       ELSE IF account_type = "auto_loan"
       THEN DictUpdate(tradeline,
               [creditorName |-> choice(AUTO_LENDERS, d),
                originalAmount |-> randint(10000, 50000, d),
                monthlyPayment |-> randint(200, 600, d)])
       ELSE DictUpdate(tradeline,
               [creditorName |-> choice(BANKS, d),
                originalAmount |-> randint(100000, 500000, d),
                monthlyPayment |-> randint(800, 3500, d)])

generate_transunion_report(first_name, last_name, middle_initial, ssn, dob, profile_range, profile_data, current_addr, former_addr, num_accounts, now, acct) ==
    LET tradelines == [k \in Range(num_accounts) |->
                          TransUnionTradeline(profile_range, now, acct[k])]
    IN [bureau |-> NameTransUnion,
        CREDIT_RESPONSE |->
          [CreditRepositorySourceType |-> "TransUnion",
           BORROWER |->
             [firstName |-> first_name,
              lastName |-> last_name,
              middleName |-> middle_initial,
              ssn |-> ssn,
              birthDate |-> dob,
              addresses |-> <<
                [type |-> "Current",
                 street |-> current_addr.addressLine1,
                 city |-> current_addr.cityName,
                 state |-> current_addr.stateAbbreviation,
                 zip |-> current_addr.zipCode],
                [type |-> "Prior",
                 street |-> former_addr.addressLine1,
                 city |-> former_addr.cityName,
                 state |-> former_addr.stateAbbreviation,
                 zip |-> former_addr.zipCode] >>],
           CREDIT_FILE |->
             [tradelines |-> tradelines,
              creditScore |->
                [model |-> "VantageScore 3.0",
                 score |-> profile_data.score,
                 scoreFactors |-> << [code |-> "01",
                                      description |-> "Credit utilization"] >>]]]]

ExperianAccount(profile_range, now, a) ==
    LET account_type == choice(ACCOUNT_TYPES, a.account_type)
        d == a.other
        account ==
            [accountNumber |-> <<"****", randint(1000, 9999, d)>>,
             accountType |-> TitleOfAccountType(account_type),
             dateOpened |-> generate_iso_date(3650, now, d),
             dateReported |-> generate_iso_date(365, now, d),
             paymentPattern |->
                 generate_payment_history(profile_range, "experian",
                                          ShuffleDraws[a.shuffle]),
             accountStatus |-> IF random_above_03(d) THEN "Open" ELSE "Closed"]
    IN IF account_type = "credit_card"
       THEN DictUpdate(account,
               [creditorName |-> choice(CREDIT_CARDS, d),
                creditLimit |-> randint(1000, 25000, d),
                balance |-> randint(0, 10000, d),
                pastDueAmount |-> IF profile_range \in {"excellent", "good"}
                                  THEN 0 ELSE randint(0, 500, d)])
       ELSE IF account_type = "auto_loan"
       THEN DictUpdate(account,
               [creditorName |-> choice(AUTO_LENDERS, d),
                originalLoanAmount |-> randint(10000, 50000, d),
                monthlyPayment |-> randint(200, 600, d),
                remainingBalance |-> randint(5000, 40000, d)])
       ELSE DictUpdate(account,
               [creditorName |-> choice(BANKS, d),
                originalLoanAmount |-> randint(100000, 500000, d),
                monthlyPayment |-> randint(800, 3500, d),
                remainingBalance |-> randint(50000, 450000, d)])

\* inq draws the number of inquiries and the fields of each
generate_experian_report(first_name, last_name, middle_initial, ssn, dob, profile_range, profile_data, current_addr, former_addr, num_accounts, now, acct, inq) ==
    LET accounts == [k \in Range(num_accounts) |->
                        ExperianAccount(profile_range, now, acct[k])]
    IN [bureau |-> NameExperian,
        creditProfile |->
          [consumerIdentity |->
             [name |-> [firstName |-> first_name,
                        middleName |-> middle_initial,
                        lastName |-> last_name],
              ssn |-> ssn,
              dateOfBirth |-> dob,
              addresses |-> <<
                [addressType |-> "Current",
                 streetAddress |-> current_addr.addressLine1,
                 city |-> current_addr.cityName,
                 state |-> current_addr.stateAbbreviation,
                 zipCode |-> current_addr.zipCode],
                [addressType |-> "Previous",
                 streetAddress |-> former_addr.addressLine1,
                 city |-> former_addr.cityName,
                 state |-> former_addr.stateAbbreviation,
                 zipCode |-> former_addr.zipCode] >>],
           creditAccounts |-> accounts,
           creditScore |->
             [scoreName |-> "Experian/Fair Isaac Risk Model V2",
              scoreValue |-> profile_data.score,
              scoreFactors |-> <<
                [factorCode |-> "38",
                 factorText |-> "Proportion of balance to limit is too high on revolving accounts"] >>],
           inquiries |->
             [q \in Range(randint(0, 3, inq)) |->
                 [inquiryDate |-> generate_iso_date(180, now, inq),
                  subscriberName |-> choice(BANKS, inq),
                  inquiryType |-> "Hard"]]]]

(***************************************************************************)
(* The store: a Python dict, which keeps its keys in insertion order.      *)
(***************************************************************************)
DictKeys(db) == [i \in DOMAIN db |-> db[i].key]
DictHas(db, k) == \E i \in DOMAIN db : db[i].key = k
DictGet(db, k) == db[CHOOSE i \in DOMAIN db : db[i].key = k].value

\* db = {k: v}: the dict is replaced by one that holds the new entry only
DictSetAlone(db, k, v) == <<[key |-> k, value |-> v]>>

\* db[k] = v: a new key goes last, a key already there keeps its place
DictSet(db, k, v) ==
    IF DictHas(db, k)
    THEN [i \in DOMAIN db |-> IF db[i].key = k THEN [key |-> k, value |-> v]
                              ELSE db[i]]
    ELSE Append(db, [key |-> k, value |-> v])

\* report.get(k, default)
GetOr(report, k, default) == IF k \in DOMAIN report THEN report[k] ELSE default

\* the ids uuid4 can return
UUIDS == 1..MaxReports

\* an id generator that starts over at every request
uuid4_repeat(db, n) == {[i \in 1..n |-> i]}

\* str(uuid4()), called n times: ids are opaque and never repeat, so the
\* ids drawn are the first n that the store does not hold
uuid4_draws(db, n) ==
    LET unused == {u \in UUIDS : ~DictHas(db, u)}
        RECURSIVE First(_, _)
        First(S, k) ==
            IF k <= 0 \/ S = {} THEN <<>>
            ELSE LET m == CHOOSE x \in S : \A y \in S : x <= y
                 IN <<m>> \o First(S \ {m}, k - 1)
    IN {First(unused, n)}

(***************************************************************************)
(* generate_credit_reports.  rnd holds every draw of the request.          *)
(***************************************************************************)
BureausToGenerate(bureau) ==
    IF bureau = ALL THEN <<EQUIFAX, TRANSUNION, EXPERIAN>> ELSE <<bureau>>

\* request.num_accounts or random.randint(2, 8)
NumAccounts(num_accounts, d) ==
    IF num_accounts = None \/ num_accounts[1] = 0 THEN randint(2, 8, d)
    ELSE num_accounts[1]

\* the body of the loop without its report.update: the document as the
\* bureau's generator returned it
BureauReportBare(bureau, report_id, first_name, last_name, middle_initial, ssn, dob, profile_range, profile_data, current_addr, former_addr, num_accounts, rnd) ==
    IF bureau = EQUIFAX
    THEN generate_equifax_report(first_name, last_name, middle_initial,
            ssn, dob, profile_range, profile_data, current_addr,
            former_addr, num_accounts, rnd.now, rnd.acct[bureau])
    ELSE IF bureau = TRANSUNION
    THEN generate_transunion_report(first_name, last_name,
            middle_initial, ssn, dob, profile_range, profile_data,
            current_addr, former_addr, num_accounts, rnd.now,
            rnd.acct[bureau])
    ELSE generate_experian_report(first_name, last_name,
            middle_initial, ssn, dob, profile_range, profile_data,
            current_addr, former_addr, num_accounts, rnd.now,
            rnd.acct[bureau], rnd.inq)

\* the body of the loop for one bureau: the report as stored
BureauReport(bureau, report_id, first_name, last_name, middle_initial, ssn, dob, profile_range, profile_data, current_addr, former_addr, num_accounts, rnd) ==
    LET report ==
            IF bureau = EQUIFAX
            THEN generate_equifax_report(first_name, last_name, middle_initial,
                    ssn, dob, profile_range, profile_data, current_addr,
                    former_addr, num_accounts, rnd.now, rnd.acct[bureau])
            ELSE IF bureau = TRANSUNION
            THEN generate_transunion_report(first_name, last_name,
                    middle_initial, ssn, dob, profile_range, profile_data,
                    current_addr, former_addr, num_accounts, rnd.now,
                    rnd.acct[bureau])
            ELSE generate_experian_report(first_name, last_name,
                    middle_initial, ssn, dob, profile_range, profile_data,
                    current_addr, former_addr, num_accounts, rnd.now,
                    rnd.acct[bureau], rnd.inq)
    IN DictUpdate(report,
          [reportId |-> report_id,
           generatedDate |-> now_isoformat(rnd.now),
           creditProfile |-> Str(profile_range)])

\* returns the store after the request and the tuple the function returns
\* (the return statement is the end of the loop).  An exception raised by
\* the encoding of target rnd.raise_at (0: none raises) leaves the loop
\* with the reports of the earlier targets stored.
generate_credit_reports(db, request, rnd) ==
    LET first_name == choice(FIRST_NAMES, rnd.first_name)
        middle_initial == UPPER[randint(65, 90, rnd.middle_initial) - 64]
        last_name == choice(LAST_NAMES, rnd.last_name)
        ssn == generate_ssn(rnd.ssn)
        dob == generate_dob(rnd.dob)
        profile == get_credit_profile(request.credit_profile, rnd.sd, rnd.dd,
                                      rnd.td)
        profile_range == profile[1]
        profile_data == profile[2]
        current_addr == generate_address(rnd.current_addr)
        former_addr == generate_address(rnd.former_addr)
        num_accounts == NumAccounts(request.num_accounts, rnd.num_accounts)
        bureaus_to_generate == BureausToGenerate(request.bureau)
        RECURSIVE Loop(_, _, _)
        Loop(i, store, reports) ==
            IF i = rnd.raise_at
            THEN [raised |-> TRUE, db |-> store]
            ELSE IF i > Len(bureaus_to_generate)
            THEN [raised |-> FALSE,
                  db |-> store,
                  reports |-> reports,
                  consumer_name |-> <<first_name, last_name>>,
                  credit_score |-> profile_data.score,
                  bureaus |-> bureaus_to_generate]
            ELSE LET bureau == bureaus_to_generate[i]
                     report_id == rnd.uuids[i]
                     report == BureauReport(bureau, report_id, first_name,
                                  last_name, middle_initial, ssn, dob,
                                  profile_range, profile_data, current_addr,
                                  former_addr, num_accounts, rnd)
                 IN Loop(i + 1, DictSet(store, report_id, report),
                         DictSet(reports, bureau, report_id))
    IN Loop(1, db, <<>>)

(***************************************************************************)
(* The handlers.  Each returns the response; only generation changes the   *)
(* store.                                                                  *)
(***************************************************************************)
\* POST /api/reports/generate
ReportGenerateResponse(out) ==
    [status |-> 200,
     report_ids |-> out.reports,
     message |-> <<"Generated", Len(out.reports), "report(s)">>,
     credit_score |-> out.credit_score,
     consumer_name |-> out.consumer_name,
     bureaus_generated |-> out.bureaus]

\* except Exception as e: raise HTTPException(status_code=500, ...)
GenerateError == [status |-> 500, detail |-> "Error"]

\* the store after the request and the response (out is computed once)
create_credit_report(db, request, rnd) ==
    CHOOSE r \in {[db |-> out.db,
                   response |-> IF out.raised THEN GenerateError
                                ELSE ReportGenerateResponse(out)] :
                     out \in {generate_credit_reports(db, request, rnd)}} : TRUE

\* a lookup without the membership test: credit_reports_db.get(report_id)
get_credit_report_unchecked(db, report_id) ==
    IF ~DictHas(db, report_id)
    THEN [status |-> 200, body |-> None]
    ELSE [status |-> 200, body |-> DictGet(db, report_id)]

\* GET /api/reports/{report_id}
get_credit_report(db, report_id) ==
    IF ~DictHas(db, report_id)
    THEN [status |-> 404, detail |-> <<"Report", report_id, "not found">>]
    ELSE [status |-> 200, body |-> DictGet(db, report_id)]

\* a filter that compares the names as they are
FilterByBureauExact(db, bureau) ==
    SelectSeq(DictKeys(db),
              LAMBDA rid : GetOr(DictGet(db, rid), "bureau", <<>>) = bureau)

\* the ids of the reports of a bureau, in the order of the store
FilterByBureau(db, bureau) ==
    SelectSeq(DictKeys(db),
              LAMBDA rid : Lower(GetOr(DictGet(db, rid), "bureau", <<>>))
                           = Lower(bureau))

\* GET /api/reports/bureau/{bureau_name}
get_reports_by_bureau(db, bureau_name) ==
    LET rids == FilterByBureau(db, bureau_name)
        bureau_reports ==
            [i \in DOMAIN rids |->
                [report_id |-> rids[i],
                 bureau |-> DictGet(db, rids[i]).bureau,
                 generated_date |-> DictGet(db, rids[i]).generatedDate]]
    IN [status |-> 200, bureau |-> bureau_name,
        count |-> Len(bureau_reports), reports |-> bureau_reports]

\* random.choices(population, k=k): positions may repeat
SamplesWithReplacement(population, k) ==
    {[i \in 1..k |-> population[pos[i]]] : pos \in [1..k -> DOMAIN population]}

\* random.sample(population, k): k distinct positions, in the order drawn
Samples(population, k) ==
    {[i \in 1..k |-> population[pos[i]]] :
        pos \in {f \in [1..k -> DOMAIN population] :
                    \A a, b \in 1..k : a # b => f[a] # f[b]}}

\* GET /api/reports/random/batch; random_ids is the sample drawn
get_random_reports_batch(db, count, bureau, random_ids) ==
    LET results ==
            [i \in DOMAIN random_ids |->
                [report_id |-> random_ids[i],
                 bureau |-> GetOr(DictGet(db, random_ids[i]), "bureau", None),
                 generated_date |->
                     GetOr(DictGet(db, random_ids[i]), "generatedDate", None),
                 credit_profile |->
                     GetOr(DictGet(db, random_ids[i]), "creditProfile", None)]]
    IN [status |-> 200, count |-> Len(results), reports |-> results]

\* the reports the batch endpoint samples from: <<found, available_reports>>
BatchAvailable(db, bureau) ==
    IF Len(db) = 0 THEN <<FALSE, <<>>>>
    ELSE IF bureau # None /\ bureau[1] # <<>>
    THEN LET filtered_reports == FilterByBureau(db, bureau[1])
         IN IF Len(filtered_reports) = 0 THEN <<FALSE, <<>>>>
            ELSE <<TRUE, filtered_reports>>
    ELSE <<TRUE, DictKeys(db)>>

\* the reports the random endpoints choose from: <<found, ids>>
RandomAvailable(db, bureau) ==
    IF Len(db) = 0 THEN <<FALSE, <<>>>>
    ELSE IF bureau # None /\ bureau[1] # <<>>
    THEN LET filtered_reports == FilterByBureau(db, bureau[1])
         IN IF Len(filtered_reports) = 0 THEN <<FALSE, <<>>>>
            ELSE <<TRUE, filtered_reports>>
    ELSE <<TRUE, DictKeys(db)>>

\* GET /api/reports/random; random_id is the id random.choice returned
get_random_report(db, bureau, random_id) ==
    IF bureau # None /\ bureau[1] # <<>>
    THEN [status |-> 200, report_id |-> random_id,
          report |-> DictGet(db, random_id),
          message |-> <<"Random", Title(bureau[1]), "report">>]
    ELSE [status |-> 200, report_id |-> random_id,
          report |-> DictGet(db, random_id),
          message |-> <<"Random",
                        GetOr(DictGet(db, random_id), "bureau", "unknown"),
                        "report">>]

\* GET /api/reports/random/simple
get_random_report_simple(db, bureau, random_id) ==
    LET report == DictGet(db, random_id)
    IN [status |-> 200, report_id |-> random_id,
        bureau |-> GetOr(report, "bureau", None),
        generated_date |-> GetOr(report, "generatedDate", None),
        credit_profile |-> GetOr(report, "creditProfile", None),
        url |-> <<"/api/reports/", random_id>>]

\* the keys of bureau_counts
StatBureaus ==
    {<<"e","q","u","i","f","a","x">>,
     <<"t","r","a","n","s","u","n","i","o","n">>,
     <<"e","x","p","e","r","i","a","n">>}

\* GET /api/stats
get_statistics(db) ==
    IF Len(db) = 0 THEN [status |-> 200, total_reports |-> 0]
    ELSE [status |-> 200, total_reports |-> Len(db),
          by_bureau |->
             [b \in StatBureaus |->
                 Cardinality({i \in DOMAIN db :
                     Lower(GetOr(db[i].value, "bureau", <<>>)) = b})]]

(***************************************************************************)
(* Inputs.                                                                 *)
(***************************************************************************)
\* bureau names a caller asks for, in several cases, and one that is none
BureauNameInputs ==
    {<<"e","q","u","i","f","a","x">>,
     <<"E","Q","U","I","F","A","X">>,
     NameTransUnion,
     <<"e","X","p","e","r","i","a","n">>,
     <<"e","q","u","i">>}

\* the optional bureau filter: absent, empty, and names in several cases
BatchBureauInputs ==
    {None, Some(<<>>), Some(<<"E","Q","U","I","F","A","X">>),
     Some(<<"t","r","a","n","s","u","n","i","o","n">>),
     Some(<<"e","q","u","i">>)}

\* count: int = Query(10, ge=1, le=100)
CountMin == 1
CountMax == 100
CountInputs == {c \in {1, 2, 3} : CountMin <= c /\ c <= CountMax}

NowDraws == {0}

\* the draws of one account
AccountDraws(P) ==
    [account_type : P.account_type, shuffle : P.shuffle, other : P.other]

\* the draws of one request of n accounts per bureau, on store db
RequestDraws(P, db, request, n) ==
    LET targets == BureausToGenerate(request.bureau)
        targetSet == {targets[i] : i \in DOMAIN targets}
    IN [first_name : P.identity, middle_initial : P.identity,
        last_name : P.identity, ssn : P.identity, dob : P.identity,
        sd : {[t \in TierSet |-> d] : d \in P.score},
        dd : {[t \in TierSet |-> d] : d \in P.delinquencies},
        td : IF request.credit_profile = "random" THEN P.tier ELSE {"lo"},
        current_addr : P.address, former_addr : P.address,
        num_accounts : {n},
        now : NowDraws,
        uuids : uuid4_draws(db, Len(targets)),
        acct : [targetSet -> [Range(NumAccounts(request.num_accounts, n))
                                -> AccountDraws(P)]],
        inq : P.other,
        raise_at : P.raise_at \cap (0..Len(targets))]

\* requests and draws of the store specification: one tier, one account, and
\* an exception at any target of the request or at none
StoreRequests ==
    [bureau : Bureau, credit_profile : {"excellent"}, num_accounts : {Some(1)},
     include_employment : {TRUE}]
StoreP ==
    [identity |-> {"lo"}, score |-> {"lo"}, delinquencies |-> {"lo"},
     tier |-> {"lo"}, address |-> {"lo"}, num_accounts |-> {"lo"},
     account_type |-> {"lo"}, shuffle |-> {0}, other |-> {"lo"},
     raise_at |-> 0..Len(BureausToGenerate(ALL))]

\* requests and draws of the generation specification: every tier, both ends
\* of the score range, every shuffle offset
GenRequests ==
    [bureau : Bureau, credit_profile : CreditProfile,
     num_accounts : {None, Some(-1), Some(0), Some(1)},
     include_employment : {TRUE}]
GenP ==
    [identity |-> {"lo"}, score |-> {"lo", "hi"}, delinquencies |-> {"lo"},
     tier |-> {"lo", "hi"}, address |-> {"lo"}, num_accounts |-> {"lo"},
     account_type |-> {"lo"}, shuffle |-> 0..MaxShuffleOffset,
     other |-> {"lo"}, raise_at |-> {0}]

(***************************************************************************)
(* Actions.                                                                *)
(***************************************************************************)
NoResp == [op |-> "none"]
PhIdle == [pc |-> "idle"]
TaskIdle == [pc |-> "idle"]

Init ==
    /\ credit_reports_db = <<>>
    /\ resp = NoResp
    /\ ph = PhIdle
    /\ tasks = [gen |-> TaskIdle, batch |-> TaskIdle]

\* a generation request, drawn from Requests with the draws of P
Generate(Requests, P) ==
    \E request \in Requests :
        /\ Len(credit_reports_db) + Len(BureausToGenerate(request.bureau))
              <= MaxReports
        /\ \E n \in P.num_accounts :
           \E rnd \in RequestDraws(P, credit_reports_db, request, n) :
           \E out \in {create_credit_report(credit_reports_db, request, rnd)} :
                 /\ credit_reports_db' = out.db
                 /\ resp' = [op |-> "generate", request |-> request,
                             response |-> out.response]
        /\ UNCHANGED <<ph, tasks>>

GetReport ==
    \E report_id \in UUIDS :
        /\ resp' = [op |-> "get", report_id |-> report_id,
                    response |-> get_credit_report(credit_reports_db, report_id)]
        /\ UNCHANGED <<credit_reports_db, ph, tasks>>

ListByBureau ==
    \E bureau_name \in BureauNameInputs :
        /\ resp' = [op |-> "list", bureau_name |-> bureau_name,
                    response |-> get_reports_by_bureau(credit_reports_db,
                                                       bureau_name)]
        /\ UNCHANGED <<credit_reports_db, ph, tasks>>

RandomBatch ==
    \E bureau \in BatchBureauInputs :
        LET avail == BatchAvailable(credit_reports_db, bureau)
        IN \E count \in CountInputs :
           /\ IF ~avail[1]
              THEN resp' = [op |-> "batch", count |-> count, bureau |-> bureau,
                            response |-> [status |-> 404]]
              ELSE \E random_ids \in Samples(avail[2], Min(count, Len(avail[2]))) :
                      resp' = [op |-> "batch", count |-> count,
                               bureau |-> bureau,
                               response |-> get_random_reports_batch(
                                   credit_reports_db, count, bureau, random_ids)]
           /\ UNCHANGED <<credit_reports_db, ph, tasks>>

GetRandom ==
    \E bureau \in BatchBureauInputs :
        LET avail == RandomAvailable(credit_reports_db, bureau)
        IN /\ IF ~avail[1]
              THEN resp' = [op |-> "random", bureau |-> bureau,
                            response |-> [status |-> 404]]
              ELSE \E n \in DOMAIN avail[2] :
                      resp' = [op |-> "random", bureau |-> bureau,
                               response |-> get_random_report(
                                   credit_reports_db, bureau, avail[2][n])]
           /\ UNCHANGED <<credit_reports_db, ph, tasks>>

GetRandomSimple ==
    \E bureau \in BatchBureauInputs :
        LET avail == RandomAvailable(credit_reports_db, bureau)
        IN /\ IF ~avail[1]
              THEN resp' = [op |-> "random_simple", bureau |-> bureau,
                            response |-> [status |-> 404]]
              ELSE \E n \in DOMAIN avail[2] :
                      resp' = [op |-> "random_simple", bureau |-> bureau,
                               response |-> get_random_report_simple(
                                   credit_reports_db, bureau, avail[2][n])]
           /\ UNCHANGED <<credit_reports_db, ph, tasks>>

GetStatistics ==
    /\ resp' = [op |-> "stats",
                response |-> get_statistics(credit_reports_db)]
    /\ UNCHANGED <<credit_reports_db, ph, tasks>>

GenerateStore == Generate(StoreRequests, StoreP)

\* one varied request on the empty store
GenerateVaried == credit_reports_db = <<>> /\ Generate(GenRequests, GenP)

Next ==
    \/ GenerateStore
    \/ GetReport
    \/ ListByBureau
    \/ RandomBatch
    \/ GetRandom
    \/ GetRandomSimple
    \/ GetStatistics
Spec == Init /\ [][Next]_vars

NextGen == GenerateVaried
SpecGen == Init /\ [][NextGen]_vars

(***************************************************************************)
(* generate_payment_history on its own, the shuffle one swap at a time.    *)
(***************************************************************************)
Formats == {"equifax", "transunion", "experian"}

PHCall ==
    /\ ph.pc = "idle"
    /\ \E profile_range \in TierSet, format \in Formats :
          ph' = [pc |-> "shuffle", profile_range |-> profile_range,
                 format |-> format, codes |-> BaseCodes(profile_range),
                 i |-> months]
    /\ UNCHANGED <<credit_reports_db, resp, tasks>>

PHShuffleStep ==
    /\ ph.pc = "shuffle"
    /\ ph.i >= 2
    /\ \E j \in ShuffleChoices(ph.i) :
          ph' = [ph EXCEPT !.codes = ShuffleStep(ph.codes, ph.i, j),
                           !.i = ph.i - 1]
    /\ UNCHANGED <<credit_reports_db, resp, tasks>>

PHReturn ==
    /\ ph.pc = "shuffle"
    /\ ph.i < 2
    /\ ph' = [pc |-> "done", profile_range |-> ph.profile_range,
              format |-> ph.format, codes |-> ph.codes, i |-> ph.i,
              result |-> EncodePaymentHistory(ph.codes, ph.format)]
    /\ UNCHANGED <<credit_reports_db, resp, tasks>>

NextPH == PHCall \/ PHShuffleStep \/ PHReturn
SpecPH == Init /\ [][NextPH]_vars

(***************************************************************************)
(* The handlers under a concurrent dispatcher.  The handlers are           *)
(* coroutines without an await, so the event loop runs each to its end     *)
(* before it starts the next.  The specification below allows more: a      *)
(* generation and a batch read advance one access to the store at a time,  *)
(* and either may run, and a get may be served, between two accesses of    *)
(* the other.  Every schedule of the event loop over these handlers is one *)
(* of its behaviours.  The other read handlers read the store in one       *)
(* access, as get does.                                                    *)
(***************************************************************************)
\* the requests a batch read is started with
ConcBureauInputs == {None, Some(<<"E","Q","U","I","F","A","X">>)}

\* what generate_credit_reports computes for the request with the draws of
\* the task when no target raises; the reports and the store are the task's
TaskOut(t) ==
    generate_credit_reports(<<>>, t.request,
                            [t.rnd EXCEPT !.raise_at = 0])

\* the report the loop builds for target i of the task's request, stored
\* under report_id: the loop run for that target alone
TaskReport(t, i, report_id) ==
    generate_credit_reports(<<>>,
        [t.request EXCEPT !.bureau = BureausToGenerate(t.request.bureau)[i]],
        [t.rnd EXCEPT !.raise_at = 0, !.uuids = <<report_id>>]).db[1].value

\* create_credit_report is called: the draws before the loop are made
CGenCall ==
    /\ tasks.gen.pc = "idle"
    /\ \E request \in StoreRequests :
          /\ Len(credit_reports_db) + Len(BureausToGenerate(request.bureau))
                <= MaxReports
          /\ \E n \in StoreP.num_accounts :
             \E rnd \in RequestDraws(StoreP, credit_reports_db, request, n) :
                tasks' = [tasks EXCEPT !.gen =
                            [pc |-> "loop", request |-> request, rnd |-> rnd,
                             i |-> 1, reports |-> <<>>]]
    /\ UNCHANGED <<credit_reports_db, resp, ph>>

\* one turn of the loop: uuid4, the bureau's generator, report.update and
\* the insertion
CGenInsert ==
    LET t == tasks.gen
    IN /\ t.pc = "loop"
       /\ t.i <= Len(BureausToGenerate(t.request.bureau))
       /\ t.i # t.rnd.raise_at
       /\ \E ids \in uuid4_draws(credit_reports_db, 1) :
             /\ credit_reports_db' =
                    DictSet(credit_reports_db, ids[1],
                            TaskReport(t, t.i, ids[1]))
             /\ tasks' = [tasks EXCEPT !.gen =
                    [t EXCEPT !.i = t.i + 1,
                              !.reports = DictSet(t.reports,
                                  BureausToGenerate(t.request.bureau)[t.i],
                                  ids[1])]]
       /\ UNCHANGED <<resp, ph>>

\* the generator of target i raises: the except clause answers
CGenRaise ==
    LET t == tasks.gen
    IN /\ t.pc = "loop"
       /\ t.i = t.rnd.raise_at
       /\ resp' = [op |-> "generate", request |-> t.request,
                   response |-> GenerateError]
       /\ tasks' = [tasks EXCEPT !.gen = TaskIdle]
       /\ UNCHANGED <<credit_reports_db, ph>>

\* the loop is over: the response is returned
CGenReturn ==
    LET t == tasks.gen
    IN /\ t.pc = "loop"
       /\ t.i > Len(BureausToGenerate(t.request.bureau))
       /\ resp' = [op |-> "generate", request |-> t.request,
                   response |-> ReportGenerateResponse(
                       [TaskOut(t) EXCEPT !.reports = t.reports])]
       /\ tasks' = [tasks EXCEPT !.gen = TaskIdle]
       /\ UNCHANGED <<credit_reports_db, ph>>

\* get_random_reports_batch up to random.sample: the store is read once
CBatchCall ==
    /\ tasks.batch.pc = "idle"
    /\ \E bureau \in ConcBureauInputs, count \in CountInputs :
          LET avail == BatchAvailable(credit_reports_db, bureau)
          IN IF ~avail[1]
             THEN /\ resp' = [op |-> "batch", count |-> count,
                              bureau |-> bureau, response |-> [status |-> 404]]
                  /\ UNCHANGED tasks
             ELSE /\ \E random_ids \in
                         Samples(avail[2], Min(count, Len(avail[2]))) :
                        tasks' = [tasks EXCEPT !.batch =
                                    [pc |-> "results", count |-> count,
                                     bureau |-> bureau,
                                     random_ids |-> random_ids]]
                  /\ UNCHANGED resp
    /\ UNCHANGED <<credit_reports_db, ph>>

\* the results: every sampled id is looked up in the store as it is now; an
\* id that is not there raises KeyError, which the framework answers
CBatchResults ==
    LET t == tasks.batch
    IN /\ t.pc = "results"
       /\ resp' = [op |-> "batch", count |-> t.count, bureau |-> t.bureau,
                   response |->
                      IF \E n \in DOMAIN t.random_ids :
                            ~DictHas(credit_reports_db, t.random_ids[n])
                      THEN [status |-> 500]
                      ELSE get_random_reports_batch(credit_reports_db,
                               t.count, t.bureau, t.random_ids)]
       /\ tasks' = [tasks EXCEPT !.batch = TaskIdle]
       /\ UNCHANGED <<credit_reports_db, ph>>

NextConc ==
    \/ CGenCall
    \/ CGenInsert
    \/ CGenRaise
    \/ CGenReturn
    \/ CBatchCall
    \/ CBatchResults
    \/ GetReport
SpecConc == Init /\ [][NextConc]_vars

(***************************************************************************)
(* Reading the stored documents, for the properties below.                 *)
(***************************************************************************)
IsGenerate == resp.op = "generate" /\ resp.response.status = 200

\* the ids a generation response r returned, in the order generated
IdsOf(r) == [i \in DOMAIN r.response.report_ids |->
                r.response.report_ids[i].value]
GeneratedIds == IdsOf(resp)

StoredReport(report_id) == DictGet(credit_reports_db, report_id)

\* an address as every bureau shows it: line, city, state, zip
AddressFacts(line, city, state, zip) ==
    [line |-> line, city |-> city, state |-> state, zip |-> zip]

\* what a stored document says about the consumer; found is FALSE when the
\* document has no identity section
IdentityFacts(report) ==
    IF report.bureau = NameEquifax
    THEN LET c == report.consumers.equifaxUSConsumerCreditReport[1]
         IN [found |-> TRUE,
             score |-> c.models[1].score,
             name |-> <<c.subjectName.firstName, c.subjectName.middleName,
                        c.subjectName.lastName>>,
             ssn |-> c.subjectSocialNum,
             current |-> AddressFacts(c.addresses[1].addressLine1,
                            c.addresses[1].cityName,
                            c.addresses[1].stateAbbreviation,
                            c.addresses[1].zipCode),
             former |-> AddressFacts(c.addresses[2].addressLine1,
                            c.addresses[2].cityName,
                            c.addresses[2].stateAbbreviation,
                            c.addresses[2].zipCode)]
    ELSE IF report.bureau = NameTransUnion
    THEN LET b == report.CREDIT_RESPONSE.BORROWER
         IN [found |-> TRUE,
             score |-> report.CREDIT_RESPONSE.CREDIT_FILE.creditScore.score,
             name |-> <<b.firstName, b.middleName, b.lastName>>,
             ssn |-> b.ssn,
             current |-> AddressFacts(b.addresses[1].street,
                            b.addresses[1].city, b.addresses[1].state,
                            b.addresses[1].zip),
             former |-> AddressFacts(b.addresses[2].street,
                            b.addresses[2].city, b.addresses[2].state,
                            b.addresses[2].zip)]
    ELSE IF "consumerIdentity" \in DOMAIN report.creditProfile
    THEN LET c == report.creditProfile.consumerIdentity
         IN [found |-> TRUE,
             score |-> report.creditProfile.creditScore.scoreValue,
             name |-> <<c.name.firstName, c.name.middleName, c.name.lastName>>,
             ssn |-> c.ssn,
             current |-> AddressFacts(c.addresses[1].streetAddress,
                            c.addresses[1].city, c.addresses[1].state,
                            c.addresses[1].zipCode),
             former |-> AddressFacts(c.addresses[2].streetAddress,
                            c.addresses[2].city, c.addresses[2].state,
                            c.addresses[2].zipCode)]
    ELSE [found |-> FALSE]

\* the severities of the payment histories of a stored document, one
\* sequence per account; found is FALSE when it has no account section
DecodeR(code) == CHOOSE v \in 0..9 : RCodes[v + 1] = code
DecodeDigit(code) == CHOOSE v \in 0..9 : Digits[v + 1] = code

AccountSeverities(report) ==
    IF report.bureau = NameEquifax
    THEN LET t == report.consumers.equifaxUSConsumerCreditReport[1].trades
         IN [found |-> TRUE,
             accounts |-> [k \in DOMAIN t |->
                 [m \in DOMAIN t[k].paymentHistory1to24 |->
                     t[k].paymentHistory1to24[m].code]]]
    ELSE IF report.bureau = NameTransUnion
    THEN LET t == report.CREDIT_RESPONSE.CREDIT_FILE.tradelines
         IN [found |-> TRUE,
             accounts |-> [k \in DOMAIN t |->
                 [m \in DOMAIN t[k].paymentHistory |->
                     DecodeR(t[k].paymentHistory[m].code)]]]
    ELSE IF "creditAccounts" \in DOMAIN report.creditProfile
    THEN LET t == report.creditProfile.creditAccounts
         IN [found |-> TRUE,
             accounts |-> [k \in DOMAIN t |->
                 [m \in DOMAIN t[k].paymentPattern |->
                     DecodeDigit(t[k].paymentPattern[m].code)]]]
    ELSE [found |-> FALSE]

\* the "bureau" field a target bureau's document carries
BureauNameOf(bureau) ==
    CASE bureau = EQUIFAX -> NameEquifax
      [] bureau = TRANSUNION -> NameTransUnion
      [] bureau = EXPERIAN -> NameExperian

(***************************************************************************)
(* C1. After a generation request for all bureaus, the three documents it  *)
(* stored each carry an identity section, and the three agree on the       *)
(* score, the full name, the SSN, the current and the former address.      *)
(***************************************************************************)
C1_AllBureausSameIdentity ==
    (IsGenerate /\ resp.request.bureau = ALL) =>
        \A i, j \in DOMAIN GeneratedIds :
            LET a == IdentityFacts(StoredReport(GeneratedIds[i]))
                b == IdentityFacts(StoredReport(GeneratedIds[j]))
            IN a.found /\ b.found /\ a = b

(***************************************************************************)
(* C2. After a generation request for all bureaus, at every account        *)
(* position the documents of the request decode, month by month, to the    *)
(* same severities.  Stated for every two of the documents that carry an   *)
(* account section (the claim takes all three to carry one).               *)
(***************************************************************************)
C2_SameSeveritySequence ==
    (IsGenerate /\ resp.request.bureau = ALL) =>
        \A i, j \in DOMAIN GeneratedIds :
            LET a == AccountSeverities(StoredReport(GeneratedIds[i]))
                b == AccountSeverities(StoredReport(GeneratedIds[j]))
            IN (a.found /\ b.found) => a.accounts = b.accounts

(***************************************************************************)
(* C3. After every generation request there is one tier among excellent,   *)
(* good, fair and poor (the requested tier itself unless the request said  *)
(* random) such that the score returned lies in that tier's closed range   *)
(* and every report the request stored records that tier's name.           *)
(***************************************************************************)
ClaimedScoreRange(t) ==
    CASE t = "excellent" -> 750..850 [] t = "good" -> 670..749
      [] t = "fair" -> 580..669 [] t = "poor" -> 300..579

C3_TierResolvedScoreInRange ==
    IsGenerate =>
        \E t \in {"excellent", "good", "fair", "poor"} :
            /\ resp.request.credit_profile # "random"
                  => t = resp.request.credit_profile
            /\ resp.response.credit_score \in ClaimedScoreRange(t)
            /\ \A i \in DOMAIN GeneratedIds :
                  StoredReport(GeneratedIds[i]).creditProfile = Str(t)

\* a random request for all bureaus resolved to poor, at the top of its range
C3_Witness ==
    /\ IsGenerate
    /\ resp.request.credit_profile = "random"
    /\ resp.request.bureau = ALL
    /\ resp.response.credit_score = 579
    /\ \A i \in DOMAIN GeneratedIds :
          StoredReport(GeneratedIds[i]).creditProfile = Str("poor")

(***************************************************************************)
(* C5. A generation request whose num_accounts is given and is zero or     *)
(* negative is rejected and stores nothing.  Under SpecGen the request     *)
(* runs on the empty store, so storing nothing leaves the store empty.     *)
(***************************************************************************)
C5_NonPositiveRejected ==
    (/\ resp.op = "generate"
     /\ resp.request.num_accounts # None
     /\ resp.request.num_accounts[1] <= 0)
        => resp.response.status # 200 /\ credit_reports_db = <<>>

(***************************************************************************)
(* C6. A step that answers a generation request with num_accounts = n,     *)
(* n >= 1, with its reports grows the store by one report per target       *)
(* bureau, each under an id the store did not hold, carrying that bureau's *)
(* name and exactly n accounts.                                            *)
(***************************************************************************)
AccountCount(report) ==
    LET a == AccountSeverities(report)
    IN IF a.found THEN Len(a.accounts) ELSE -1

C6_ReportsPerRequest ==
    [][(/\ resp'.op = "generate"
        /\ resp'.response.status = 200
        /\ credit_reports_db' # credit_reports_db
        /\ resp'.request.num_accounts # None
        /\ resp'.request.num_accounts[1] >= 1)
          => LET targets == BureausToGenerate(resp'.request.bureau)
                 ids == IdsOf(resp')
             IN /\ Len(credit_reports_db')
                      = Len(credit_reports_db) + Len(targets)
                /\ Len(ids) = Len(targets)
                /\ \A i \in DOMAIN ids :
                      /\ ~DictHas(credit_reports_db, ids[i])
                      /\ DictHas(credit_reports_db', ids[i])
                      /\ DictGet(credit_reports_db', ids[i]).bureau
                            = BureauNameOf(targets[i])
                      /\ AccountCount(DictGet(credit_reports_db', ids[i]))
                            = resp'.request.num_accounts[1]]_vars

(***************************************************************************)
(* C4. In generate_payment_history, from the codes built for the tier to   *)
(* the list returned, the sequence has 24 entries, every severity is in    *)
(* 1..4 and the severities occur as often as the tier's composition says:  *)
(* the shuffle moves entries and changes none.  The list returned has 24   *)
(* entries and decodes, in its format, to the shuffled severities.         *)
(***************************************************************************)
Occurrences(seq, v) == Cardinality({m \in DOMAIN seq : seq[m] = v})

\* how often the severities 1, 2, 3, 4 occur in a tier's payment history
ClaimedComposition(t) ==
    CASE t = "excellent" -> <<24, 0, 0, 0>>
      [] t = "good" -> <<22, 2, 0, 0>>
      [] t = "fair" -> <<20, 3, 1, 0>>
      [] t = "poor" -> <<16, 3, 3, 2>>

DecodeEntry(entry, format) ==
    IF format = "transunion" THEN DecodeR(entry.code)
    ELSE IF format = "experian" THEN DecodeDigit(entry.code)
    ELSE entry.code

C4_PaymentHistoryComposition ==
    ph.pc # "idle" =>
        /\ Len(ph.codes) = 24
        /\ \A m \in DOMAIN ph.codes : ph.codes[m] \in 1..4
        /\ \A v \in 1..4 :
              Occurrences(ph.codes, v) = ClaimedComposition(ph.profile_range)[v]
        /\ ph.pc = "done" =>
              /\ Len(ph.result) = 24
              /\ \A m \in DOMAIN ph.result :
                    DecodeEntry(ph.result[m], ph.format) = ph.codes[m]

\* a poor history returned with its first entry moved
C4_Witness ==
    /\ ph.pc = "done"
    /\ ph.profile_range = "poor"
    /\ ph.format = "transunion"
    /\ ph.codes[1] # 1

(***************************************************************************)
(* C7. Whatever step is taken, a get of an id the store held before the    *)
(* step returns, after it, the document the store held under that id; and  *)
(* a get request answered by the step returns the stored document.         *)
(***************************************************************************)
C7_GetReturnsStored ==
    [][/\ \A i \in DOMAIN credit_reports_db :
             get_credit_report(credit_reports_db', credit_reports_db[i].key)
                = [status |-> 200, body |-> credit_reports_db[i].value]
       /\ \A i \in DOMAIN credit_reports_db' :
             get_credit_report(credit_reports_db', credit_reports_db'[i].key)
                = [status |-> 200, body |-> credit_reports_db'[i].value]
       /\ (resp'.op = "get" /\ DictHas(credit_reports_db, resp'.report_id))
             => resp'.response
                   = [status |-> 200,
                      body |-> DictGet(credit_reports_db, resp'.report_id)]
      ]_vars

\* the first report read back after two more were stored
C7_Witness ==
    /\ resp.op = "get"
    /\ Len(credit_reports_db) = 3
    /\ resp.report_id = credit_reports_db[1].key
    /\ resp.response.status = 200
    /\ resp.response.body = credit_reports_db[1].value
    /\ resp.response.body.reportId = resp.report_id

(***************************************************************************)
(* C8. A step that answers a get request leaves the store as it was; when  *)
(* the id is not in the store the answer is 404 and carries no document,   *)
(* and an answer of 200 is given only for an id in the store.              *)
(***************************************************************************)
C8_GetAbsentNotFound ==
    [][resp'.op = "get" =>
          /\ credit_reports_db' = credit_reports_db
          /\ ~DictHas(credit_reports_db, resp'.report_id)
                => /\ resp'.response.status = 404
                   /\ "body" \notin DOMAIN resp'.response
          /\ resp'.response.status = 200
                => DictHas(credit_reports_db, resp'.report_id)
      ]_vars

\* an id that is not stored, asked of a store that holds reports
C8_Witness ==
    /\ resp.op = "get"
    /\ resp.response.status = 404
    /\ Len(credit_reports_db) >= 1
    /\ ~DictHas(credit_reports_db, resp.report_id)

(***************************************************************************)
(* C9. The answer of list_by_bureau(name) holds exactly the stored reports *)
(* whose bureau field equals name up to the case of its letters, once      *)
(* each, in the order of insertion.                                        *)
(***************************************************************************)
SameLetter(a, b) ==
    \/ a = b
    \/ \E n \in DOMAIN UPPER : {a, b} = {UPPER[n], LOWER[n]}

EqualIgnoringCase(s, t) ==
    /\ Len(s) = Len(t)
    /\ \A n \in DOMAIN s : SameLetter(s[n], t[n])

\* the place of a stored id in the store
PlaceOf(report_id) ==
    CHOOSE i \in DOMAIN credit_reports_db :
        credit_reports_db[i].key = report_id

C9_ListByBureau ==
    resp.op = "list" =>
        LET listed == resp.response.reports
        IN /\ resp.response.status = 200
           /\ resp.response.count = Len(listed)
           /\ \A n \in DOMAIN listed :
                 /\ DictHas(credit_reports_db, listed[n].report_id)
                 /\ EqualIgnoringCase(StoredReport(listed[n].report_id).bureau,
                                      resp.bureau_name)
                 /\ listed[n].bureau = StoredReport(listed[n].report_id).bureau
           /\ \A i \in DOMAIN credit_reports_db :
                 EqualIgnoringCase(credit_reports_db[i].value.bureau,
                                   resp.bureau_name)
                    => \E n \in DOMAIN listed :
                          listed[n].report_id = credit_reports_db[i].key
           /\ \A m, n \in DOMAIN listed :
                 m < n => PlaceOf(listed[m].report_id)
                             < PlaceOf(listed[n].report_id)

\* two of three stored reports listed under a name in another case
C9_Witness ==
    /\ resp.op = "list"
    /\ Len(credit_reports_db) = 3
    /\ resp.response.count = 2
    /\ resp.bureau_name # StoredReport(resp.response.reports[1].report_id).bureau
    /\ PlaceOf(resp.response.reports[1].report_id) = 1
    /\ PlaceOf(resp.response.reports[2].report_id) = 3

(***************************************************************************)
(* C10. The answer of random_sample(n, bureau) is NotFound when no stored  *)
(* report is available, and otherwise holds exactly min(n, available)      *)
(* reports, no two the same, each a stored report that is available.  The  *)
(* available reports are those of the bureau (up to case) when a bureau is *)
(* given, an empty name counting as none given, and else all of the store. *)
(***************************************************************************)
BureauGiven(bureau) == bureau # None /\ bureau[1] # <<>>

AvailableIds(bureau) ==
    {credit_reports_db[i].key : i \in
        {i \in DOMAIN credit_reports_db :
            BureauGiven(bureau)
               => EqualIgnoringCase(credit_reports_db[i].value.bureau,
                                    bureau[1])}}

C10_RandomSample ==
    resp.op = "batch" =>
        LET available == AvailableIds(resp.bureau)
        IN IF available = {}
           THEN resp.response.status = 404
           ELSE LET sampled == resp.response.reports
                IN /\ resp.response.status = 200
                   /\ Len(sampled) = Min(resp.count, Cardinality(available))
                   /\ resp.response.count = Len(sampled)
                   /\ \A n \in DOMAIN sampled :
                         sampled[n].report_id \in available
                   /\ \A m, n \in DOMAIN sampled :
                         m # n => sampled[m].report_id # sampled[n].report_id

\* three asked of a bureau that has two of the three stored reports
C10_Witness ==
    /\ resp.op = "batch"
    /\ BureauGiven(resp.bureau)
    /\ resp.count = 3
    /\ Len(credit_reports_db) = 3
    /\ resp.response.status = 200
    /\ Len(resp.response.reports) = 2

(***************************************************************************)
(* C11. A step that answers a generation request with a failure either     *)
(* leaves the store as it was, or names in its answer every report the     *)
(* step added to the store: a failed request leaves no stored report the   *)
(* caller is not told about.                                               *)
(***************************************************************************)
\* the ids a step added to the store
AddedIds ==
    {credit_reports_db'[i].key : i \in DOMAIN credit_reports_db'}
        \ {credit_reports_db[i].key : i \in DOMAIN credit_reports_db}

\* the ids an answer names, whatever its status
ReportedIds(response) ==
    IF "report_ids" \in DOMAIN response
    THEN {response.report_ids[i].value : i \in DOMAIN response.report_ids}
    ELSE {}

C11_FailedRequestToldOrRolledBack ==
    [][(resp'.op = "generate" /\ resp'.response.status # 200)
          => \/ credit_reports_db' = credit_reports_db
             \/ AddedIds \subseteq ReportedIds(resp'.response)]_vars

(***************************************************************************)
(* C12. No step mutates or removes a stored report: every id the store     *)
(* holds before a step (a generation that succeeds or fails, get,          *)
(* list_by_bureau, random, random_sample, stats) is held after it and maps *)
(* to the same document, so the set of stored ids only grows.              *)
(***************************************************************************)
StoredIds(db) == {db[i].key : i \in DOMAIN db}

C12_StoredNeverMutated ==
    [][/\ StoredIds(credit_reports_db) \subseteq StoredIds(credit_reports_db')
       /\ \A report_id \in StoredIds(credit_reports_db) :
             DictGet(credit_reports_db', report_id)
                = DictGet(credit_reports_db, report_id)
       /\ resp'.op \in {"get", "list", "random", "random_simple", "batch",
                         "stats"}
             => credit_reports_db' = credit_reports_db
      ]_vars

\* a request for one bureau that failed on a store of two reports
C12_Witness ==
    /\ resp.op = "generate"
    /\ resp.request.bureau # ALL
    /\ resp.response.status = 500
    /\ Len(credit_reports_db) = 2

(***************************************************************************)
(* C13. The answer of a successful generation request maps exactly the     *)
(* bureaus it lists as generated to report ids; every id it returns is in  *)
(* the store and names a report of that bureau, and the score it returns   *)
(* is the score each of those stored documents contains.                   *)
(***************************************************************************)
C13_ResponseMatchesStore ==
    IsGenerate =>
        LET report_ids == resp.response.report_ids
            bureaus == resp.response.bureaus_generated
        IN /\ Len(report_ids) = Len(bureaus)
           /\ \A i \in DOMAIN report_ids :
                 /\ report_ids[i].key = bureaus[i]
                 /\ DictHas(credit_reports_db, report_ids[i].value)
                 /\ StoredReport(report_ids[i].value).bureau
                       = BureauNameOf(bureaus[i])
                 /\ IdentityFacts(StoredReport(report_ids[i].value)).found
                 /\ IdentityFacts(StoredReport(report_ids[i].value)).score
                       = resp.response.credit_score

(***************************************************************************)
(* C14. Whatever the interleaving of generations and reads, every report   *)
(* in the store carries its id, equal to the key it is stored under, a     *)
(* bureau name, a generation timestamp and the name of a tier; so does     *)
(* every report a get returned; and every id a batch read returned is in   *)
(* the store, with those fields in its entry.                              *)
(***************************************************************************)
BureauNames == {NameEquifax, NameTransUnion, NameExperian}

\* a document that carries what report.update and the generator set
Complete(report, report_id) ==
    /\ {"reportId", "bureau", "generatedDate", "creditProfile"}
          \subseteq DOMAIN report
    /\ report.reportId = report_id
    /\ report.bureau \in BureauNames
    /\ report.generatedDate # None
    /\ report.creditProfile \in {Str(t) : t \in TierSet}

C14_NoPartialReportObserved ==
    /\ \A i \in DOMAIN credit_reports_db :
          Complete(credit_reports_db[i].value, credit_reports_db[i].key)
    /\ (resp.op = "get" /\ resp.response.status = 200)
          => Complete(resp.response.body, resp.report_id)
    /\ resp.op = "batch"
          => /\ resp.response.status \in {200, 404}
             /\ resp.response.status = 200
                   => \A n \in DOMAIN resp.response.reports :
                         LET entry == resp.response.reports[n]
                         IN /\ DictHas(credit_reports_db, entry.report_id)
                            /\ entry.bureau \in BureauNames
                            /\ entry.generated_date
                                  = StoredReport(entry.report_id).generatedDate
                            /\ entry.credit_profile \in
                                  {Str(t) : t \in TierSet}

\* a batch read answered, while a generation for all bureaus is between its
\* insertions, with a report that generation has inserted
C14_Witness ==
    /\ tasks.gen.pc = "loop"
    /\ tasks.gen.request.bureau = ALL
    /\ tasks.gen.i = 2
    /\ resp.op = "batch"
    /\ resp.response.status = 200
    /\ \E n \in DOMAIN resp.response.reports :
          resp.response.reports[n].report_id = tasks.gen.reports[1].value

====
